---- MODULE Spec2Model ----
(***************************************************************************)
(* Model of the CV retrieval core of kandidatfinnern:                      *)
(*   - the process-wide lazily constructed reranker (cv_indexer.py,        *)
(*     _get_reranker),                                                     *)
(*   - CVIndexer.search (cv_indexer.py) with the cross-encoder reranking   *)
(*     pass (cross_encoder_reranker.py),                                   *)
(*   - the chunker CVIndexer._split_into_chunks (specification SpecChunk), *)
(*   - indexing and deleting: CVIndexer.__init__, index_cv, index_all_cvs, *)
(*     delete_cv and get_stats on the persisted collection (specification  *)
(*     SpecIndex; SpecNames for files of every supported extension),       *)
(*   - the text extraction CVIndexer._extract_text_from_json of a          *)
(*     FlowCase/CVPartner document (specification SpecExtract).            *)
(* The similarity index (ChromaDB collection) and the cross-encoder model  *)
(* are collaborators: the index answers a query with the stored chunks     *)
(* that match the filter in ascending distance, the scorer returns one     *)
(* score per (query, document) pair, and either may raise.                 *)
(***************************************************************************)
EXTENDS Integers, Sequences, FiniteSets, TLC

VARIABLES
    collection,        \* the ChromaDB collection: chunk id -> [document, metadata]
    enable_reranking,  \* config.ENABLE_RERANKING of this process
    reranker,          \* module global _reranker: "None", "Object" or "False"
    constructions,     \* number of CrossEncoderReranker() calls made so far
    call,              \* the last search call: arguments and what it did
    result,            \* what the last search call gave its caller
    pc,                \* concurrent callers: position of each thread
    local,             \* concurrent callers: each thread's locals
    config,            \* config.CHUNK_SIZE, CHUNK_OVERLAP, MIN_CHUNK_SIZE of this process
    files,             \* the CV files in the data directory: name -> content
    op,                \* the last indexer operation: arguments and what it did
    chunker,           \* _split_into_chunks: the call under way and its locals
    extraction         \* _extract_text_from_json: the document given and the lines made

vars == <<collection, enable_reranking, reranker, constructions, call, result, pc, local,
          config, files, op, chunker, extraction>>

----------------------------------------------------------------------------
(* Bounds of the model *)

\* number of chunks that may be stored in the collection
MaxChunks == 3
\* rerank scores are drawn from 0..MaxScore
MaxScore == 2
\* number of threads calling search concurrently
MaxThreads == 2
\* CHUNK_SIZE, CHUNK_OVERLAP and MIN_CHUNK_SIZE are drawn from 0..MaxSize
MaxSize == 3
\* texts given to the chunker have 0..MaxTokens tokens
MaxTokens == 5
\* passes followed of a chunker loop that does not end
MaxPasses == 6
\* the extracted text of a CV file has 1..MaxFileTokens tokens
MaxFileTokens == 4
\* entries in the list of one section of a document
MaxEntries == 2

----------------------------------------------------------------------------
(* Configuration: src/config.py *)

DEFAULT_SEARCH_RESULTS == 12
MAX_SEARCH_RESULTS == 20
RERANK_TOP_K == 50

----------------------------------------------------------------------------
(* Helpers *)

Min(a, b) == IF a <= b THEN a ELSE b
Max(a, b) == IF a >= b THEN a ELSE b

\* Python slice s[:k] for k >= 0
Take(s, k) == SubSeq(s, 1, Min(k, Len(s)))

Range(s) == {s[i] : i \in 1..Len(s)}

----------------------------------------------------------------------------
(* The stored chunks *)

\* chunk ids "{file_path.stem}_{i}" of two CV files
AllIds == <<"ola_0", "kari_0", "ola_1", "kari_1", "ola_2", "kari_2">>

ChunkIds == {AllIds[k] : k \in 1..Min(MaxChunks, Len(AllIds))}

\* the contents the persisted collection may have when the process starts
StartContents == SUBSET ChunkIds

PosTable == [id \in {AllIds[k] : k \in 1..Len(AllIds)} |->
                CHOOSE k \in 1..Len(AllIds) : AllIds[k] = id]

\* position of a chunk id in AllIds
PosOf(id) == PosTable[id]

SourceOf(id) == IF PosOf(id) % 2 = 1 THEN "ola.json" ELSE "kari.json"

OfficeOf(id) == IF PosOf(id) % 2 = 1 THEN "Oslo" ELSE "Bergen"

\* the chunk stored under an id: its text and its metadata
StoredChunk(id) ==
    [document |-> IF PosOf(id) <= 2 THEN "text A" ELSE "text B",
     metadata |-> [source |-> SourceOf(id), office |-> OfficeOf(id)]]

----------------------------------------------------------------------------
(* The similarity index: collection.query(query_texts, n_results, where) *)

Queries == {"q1", "q2"}

NoFilter == [key |-> "none", value |-> "none"]
Filters == {NoFilter} \cup {[key |-> "office", value |-> o] : o \in {"Oslo", "Bergen"}}

\* cosine distance between the query and a stored chunk (lower = closer)
Distance(q, id) == IF q = "q1" THEN PosOf(id) ELSE Len(AllIds) + 1 - PosOf(id)

Matches(coll, where, id) ==
    \/ where = NoFilter
    \/ where.key = "office" /\ coll[id].metadata.office = where.value
    \/ where.key = "source" /\ coll[id].metadata.source = where.value

RECURSIVE SortByDistance(_, _)
SortByDistance(q, S) ==
    IF S = {} THEN <<>>
    ELSE LET m == CHOOSE x \in S : \A y \in S : Distance(q, x) <= Distance(q, y)
         IN  <<m>> \o SortByDistance(q, S \ {m})

\* ids of the k nearest stored chunks that match the filter, nearest first
CollectionQuery(coll, q, k, where) ==
    Take(SortByDistance(q, {id \in DOMAIN coll : Matches(coll, where, id)}), k)

\* a query that drops the caller's filter
QueryIndexUnfiltered(coll, q, fetch_count, filter_metadata) ==
    CollectionQuery(coll, q, fetch_count, NoFilter)

\* search's one call of the index:
\* self.collection.query(query_texts=[query], n_results=fetch_count, where=filter_metadata)
QueryIndex(coll, q, fetch_count, filter_metadata) ==
    CollectionQuery(coll, q, fetch_count, filter_metadata)

----------------------------------------------------------------------------
(* CrossEncoderReranker: src/cross_encoder_reranker.py *)

\* scores the cross-encoder may give to a (query, document) pair
Scores == 0..MaxScore

\* a sort that puts an entry before the entries of equal score
RECURSIVE InsertTiesFirst(_, _)
InsertTiesFirst(p, s) ==
    IF s = <<>> THEN <<p>>
    ELSE IF Head(s)[2] > p[2] THEN <<Head(s)>> \o InsertTiesFirst(p, Tail(s))
    ELSE <<p>> \o s

\* place (index, score) p in a list sorted by descending score, behind the
\* entries whose score is at least p's
RECURSIVE InsertDesc(_, _)
InsertDesc(p, s) ==
    IF s = <<>> THEN <<p>>
    ELSE IF Head(s)[2] >= p[2] THEN <<Head(s)>> \o InsertDesc(p, Tail(s))
    ELSE <<p>> \o s

\* scored_indices.sort(key=lambda x: x[1], reverse=True): a stable sort
RECURSIVE SortDescByScore(_)
SortDescByScore(s) ==
    IF s = <<>> THEN <<>>
    ELSE InsertDesc(s[Len(s)], SortDescByScore(SubSeq(s, 1, Len(s) - 1)))

\* rerank(query, documents, top_k), given the scores model.predict returned
Rerank(scores, top_k) ==
    IF scores = <<>> THEN <<>>
    ELSE LET scored_indices == SortDescByScore([i \in 1..Len(scores) |-> <<i, scores[i]>>])
         IN  IF top_k # 0 THEN Take(scored_indices, top_k) ELSE scored_indices

\* rerank_search_results(query, search_results, top_k): a search result is
\* the dict's lists; has_rerank_scores says whether the key 'rerank_scores'
\* is in the dict
RerankSearchResults(search_results, scores, top_k) ==
    IF search_results.documents = <<>> THEN search_results
    ELSE LET reranked_indices == Rerank(scores, top_k)
             R == 1..Len(reranked_indices)
         IN  [ids |-> [k \in R |-> search_results.ids[reranked_indices[k][1]]],
              documents |-> [k \in R |-> search_results.documents[reranked_indices[k][1]]],
              metadatas |-> [k \in R |-> search_results.metadatas[reranked_indices[k][1]]],
              distances |-> [k \in R |-> search_results.distances[reranked_indices[k][1]]],
              has_rerank_scores |-> TRUE,
              rerank_scores |-> [k \in R |-> reranked_indices[k][2]]]

----------------------------------------------------------------------------
(* _get_reranker: src/cv_indexer.py *)

RerankerStates == {"None", "Object", "False"}

\* a _get_reranker that tries again after a failed construction
GetRerankerRetrying(rr, enable, ctor_ok) ==
    IF enable /\ rr # "Object"
    THEN [value |-> IF ctor_ok THEN "Object" ELSE "False", constructed |-> TRUE]
    ELSE [value |-> rr, constructed |-> FALSE]

\* a _get_reranker that does not record a failed construction
GetRerankerForgetsFailure(rr, enable, ctor_ok) ==
    IF enable /\ rr = "None"
    THEN [value |-> IF ctor_ok THEN "Object" ELSE "None", constructed |-> TRUE]
    ELSE [value |-> rr, constructed |-> FALSE]

\* _get_reranker(): value is _reranker after the call, which is also the
\* value returned; constructed says whether CrossEncoderReranker() was run
GetReranker(rr, enable, ctor_ok) ==
    IF enable /\ rr = "None"
    THEN [value |-> IF ctor_ok THEN "Object" ELSE "False", constructed |-> TRUE]
    ELSE [value |-> rr, constructed |-> FALSE]

----------------------------------------------------------------------------
(* CVIndexer.search: src/cv_indexer.py *)

\* n_results arguments; 0 stands for None (n_results or DEFAULT treats both alike)
Ns == {0, 1, 2, 25}

\* use_reranking arguments
UseOpts == {"None", "True", "False"}

NResults(n) == Min(IF n = 0 THEN DEFAULT_SEARCH_RESULTS ELSE n, MAX_SEARCH_RESULTS)

UseReranking(u, enable) == IF u = "None" THEN enable ELSE u = "True"

\* a fetch of exactly the number of results asked for
FetchCountExact(n_results, use_reranking) == n_results

\* lines 546-547: fetch_count = RERANK_TOP_K if use_reranking else n_results,
\* then max(fetch_count, n_results)
FetchCount(n_results, use_reranking) ==
    Max(IF use_reranking THEN RERANK_TOP_K ELSE n_results, n_results)

\* the flattened answer of the index for the pool of ids it returned
Flatten(coll, q, pool) ==
    [ids |-> pool,
     documents |-> [k \in 1..Len(pool) |-> coll[pool[k]].document],
     metadatas |-> [k \in 1..Len(pool) |-> coll[pool[k]].metadata],
     distances |-> [k \in 1..Len(pool) |-> Distance(q, pool[k])],
     has_rerank_scores |-> FALSE,
     rerank_scores |-> <<>>]

EmptyResults ==
    [ids |-> <<>>, documents |-> <<>>, metadatas |-> <<>>, distances |-> <<>>,
     has_rerank_scores |-> FALSE, rerank_scores |-> <<>>]

\* a search that returns everything it fetched
NoTruncate(search_results, n_results) == search_results

\* "Ensure we only return the requested number of results"
Truncate(search_results, n_results) ==
    IF Len(search_results.ids) > n_results
    THEN [ids |-> Take(search_results.ids, n_results),
          documents |-> Take(search_results.documents, n_results),
          metadatas |-> Take(search_results.metadatas, n_results),
          distances |-> IF search_results.distances # <<>>
                        THEN Take(search_results.distances, n_results) ELSE <<>>,
          has_rerank_scores |-> TRUE,
          rerank_scores |-> Take(IF search_results.has_rerank_scores
                                 THEN search_results.rerank_scores ELSE <<>>, n_results)]
    ELSE search_results

----------------------------------------------------------------------------
(* One search call, run to completion *)

NoCall ==
    [query |-> "none", n |-> 0, where |-> NoFilter, u |-> "None",
     n_results |-> 0, use_reranking |-> FALSE, fetch_count |-> 0,
     queries |-> 0, index_ok |-> TRUE, pool |-> <<>>,
     reranker_before |-> "None", get_reranker_calls |-> 0, constructed |-> FALSE,
     predict_calls |-> 0, predict_ok |-> TRUE, scores |-> <<>>]

NoResult == [status |-> "none", value |-> EmptyResults]
Raised == [status |-> "raised", value |-> EmptyResults]
Returned(search_results) == [status |-> "returned", value |-> search_results]

\* a search that answers an index failure with an empty result
SearchOutcomeSwallowing(index_ok, scoring_ok, search_results) ==
    IF ~scoring_ok THEN Raised
    ELSE IF ~index_ok THEN Returned(EmptyResults)
    ELSE Returned(search_results)

\* the try block of search: whatever raises inside it is logged and raised
\* again, otherwise search_results is returned
SearchOutcome(index_ok, scoring_ok, search_results) ==
    IF ~index_ok \/ ~scoring_ok THEN Raised ELSE Returned(search_results)

\* what the index answers to the query of search(q, n, where, u)
PoolOf(q, n, where, u) ==
    QueryIndex(collection, q,
               FetchCount(NResults(n), UseReranking(u, enable_reranking)), where)

\* line 575: does the call reach _get_reranker()?
AsksReranker(q, n, where, u) ==
    UseReranking(u, enable_reranking) /\ Len(PoolOf(q, n, where, u)) > 0

\* search(query, n_results, filter_metadata, use_reranking), called when no
\* other call is under way, where the index
\* query succeeds or raises (index_ok), CrossEncoderReranker() succeeds or
\* raises if it is run (ctor_ok), and model.predict returns scores or raises
\* if it is run (predict_ok)
Search(q, n, where, u, index_ok, ctor_ok, predict_ok, scores) ==
    LET n_results == NResults(n)
        use_reranking == UseReranking(u, enable_reranking)
        fetch_count == FetchCount(n_results, use_reranking)
        pool == IF index_ok THEN QueryIndex(collection, q, fetch_count, where) ELSE <<>>
        search_results == Flatten(collection, q, pool)
        asks == index_ok /\ use_reranking /\ Len(search_results.documents) > 0
        got == GetReranker(reranker, enable_reranking, ctor_ok)
        available == asks /\ got.value = "Object"
        final == IF available
                 THEN RerankSearchResults(search_results, scores, n_results)
                 ELSE search_results
    IN  /\ result.status = "none"
        /\ reranker' = IF asks THEN got.value ELSE reranker
        /\ constructions' = constructions + (IF asks /\ got.constructed THEN 1 ELSE 0)
        /\ call' = [query |-> q, n |-> n, where |-> where, u |-> u,
                    n_results |-> n_results, use_reranking |-> use_reranking,
                    fetch_count |-> fetch_count,
                    queries |-> 1, index_ok |-> index_ok,
                    pool |-> pool,
                    reranker_before |-> reranker,
                    get_reranker_calls |-> IF asks THEN 1 ELSE 0,
                    constructed |-> asks /\ got.constructed,
                    predict_calls |-> IF available THEN 1 ELSE 0,
                    predict_ok |-> predict_ok,
                    scores |-> IF available /\ predict_ok THEN scores ELSE <<>>]
        /\ result' = SearchOutcome(index_ok, ~available \/ predict_ok,
                                    Truncate(final, n_results))
        /\ UNCHANGED <<extraction, config, files, op, chunker, collection, enable_reranking, pc, local>>

\* collection.query raises
SearchIndexFails ==
    \E q \in Queries, n \in Ns, where \in Filters, u \in UseOpts :
        Search(q, n, where, u, FALSE, TRUE, TRUE, <<>>)

\* reranking not requested, or the index returned no candidate
SearchPlain ==
    \E q \in Queries, n \in Ns, where \in Filters, u \in UseOpts :
        /\ ~AsksReranker(q, n, where, u)
        /\ Search(q, n, where, u, TRUE, TRUE, TRUE, <<>>)

\* reranking requested and _get_reranker() gives no reranker: disabled by
\* configuration, failed before, or failing to construct now
SearchNoReranker ==
    \E q \in Queries, n \in Ns, where \in Filters, u \in UseOpts :
        /\ AsksReranker(q, n, where, u)
        /\ GetReranker(reranker, enable_reranking, FALSE).value # "Object"
        /\ Search(q, n, where, u, TRUE, FALSE, TRUE, <<>>)

\* reranking requested, the reranker is there (or is constructed now) and
\* scores the candidates
SearchReranked ==
    \E q \in Queries, n \in Ns, where \in Filters, u \in UseOpts :
        /\ AsksReranker(q, n, where, u)
        /\ GetReranker(reranker, enable_reranking, TRUE).value = "Object"
        /\ \E scores \in [1..Len(PoolOf(q, n, where, u)) -> Scores] :
               Search(q, n, where, u, TRUE, TRUE, TRUE, scores)

\* reranking requested, the reranker is there (or is constructed now) and
\* model.predict raises
SearchScoringFails ==
    \E q \in Queries, n \in Ns, where \in Filters, u \in UseOpts :
        /\ AsksReranker(q, n, where, u)
        /\ GetReranker(reranker, enable_reranking, TRUE).value = "Object"
        /\ Search(q, n, where, u, TRUE, TRUE, FALSE, <<>>)

\* the caller has the return value or the exception of its search call
\* (call_tool formats the results and answers its client) and is free to
\* make the next call
ReturnToCaller ==
    /\ result.status # "none"
    /\ result' = NoResult
    /\ call' = NoCall
    /\ UNCHANGED <<extraction, config, files, op, chunker, collection, enable_reranking, reranker, constructions, pc, local>>

----------------------------------------------------------------------------
(* Chunking configuration: src/config.py, read from the environment *)

\* the values of CHUNK_SIZE, CHUNK_OVERLAP and MIN_CHUNK_SIZE when the
\* environment sets none of them
DefaultConfig == [chunk_size |-> 500, overlap |-> 100, min_chunk_size |-> 50]

\* the values the environment may set: int(os.getenv(...)) takes any integer
\* and nothing checks how the three relate
Configs ==
    [chunk_size : 0..MaxSize, overlap : 0..MaxSize, min_chunk_size : 0..MaxSize]

----------------------------------------------------------------------------
(* Texts: a text is its whitespace-separated tokens and how they are laid   *)
(* out ("single": exactly one space between tokens and none around them,    *)
(* "lines": any other layout, e.g. the lines of a CV)                       *)

Layouts == {"single", "lines"}

\* the text of n tokens in a layout; token i is the number i
Text(n, layout) == [words |-> [i \in 1..n |-> i], layout |-> layout]

Texts == {Text(n, layout) : n \in 0..MaxTokens, layout \in Layouts}

\* text.split()
Split(text) == text.words

\* " ".join(chunk_words)
Join(chunk_words) == [words |-> chunk_words, layout |-> "single"]

\* a slice that leaves out the last element asked for
PySliceShort(s, a, b) ==
    LET lo == IF a < 0 THEN Max(Len(s) + a, 0) ELSE Min(a, Len(s))
        hi == IF b - 1 < 0 THEN Max(Len(s) + b - 1, 0) ELSE Min(b - 1, Len(s))
    IN  IF lo >= hi THEN <<>> ELSE SubSeq(s, lo + 1, hi)

\* Python slice s[a:b]
PySlice(s, a, b) ==
    LET lo == IF a < 0 THEN Max(Len(s) + a, 0) ELSE Min(a, Len(s))
        hi == IF b < 0 THEN Max(Len(s) + b, 0) ELSE Min(b, Len(s))
    IN  IF lo >= hi THEN <<>> ELSE SubSeq(s, lo + 1, hi)

\* Python "x or default" on an optional integer argument
OrDefault(x, default) == IF x = "None" \/ x = 0 THEN default ELSE x

----------------------------------------------------------------------------
(* CVIndexer._split_into_chunks: src/cv_indexer.py *)

\* a short text that is rebuilt from its tokens
WholeTextJoined(text) == <<Join(Split(text))>>

\* line 109: return [text]
WholeText(text) == <<text>>

\* a window test that keeps every window
KeepsWindowAlways(chunk_words, min_chunk_size) == TRUE

\* line 119: if len(chunk_words) >= config.MIN_CHUNK_SIZE
KeepsWindow(chunk_words, min_chunk_size) == Len(chunk_words) >= min_chunk_size

\* a start that moves on by the overlap only
AdvanceByOverlap(start, chunk_size, overlap) == start + overlap

\* line 124: start += (chunk_size - overlap)
Advance(start, chunk_size, overlap) == start + (chunk_size - overlap)

\* a pass that puts its window in front of the chunks it has
WindowStepPrepending(words, chunk_size, overlap, min_chunk_size, l) ==
    LET end == l.start + chunk_size
        chunk_words == PySlice(words, l.start, end)
    IN  [start  |-> Advance(l.start, chunk_size, overlap),
         chunks |-> IF KeepsWindow(chunk_words, min_chunk_size)
                    THEN <<Join(chunk_words)>> \o l.chunks
                    ELSE l.chunks]

\* lines 115-124: one pass through the body of the while loop, from the
\* locals [start, chunks] to their new values
WindowStep(words, chunk_size, overlap, min_chunk_size, l) ==
    LET end == l.start + chunk_size
        chunk_words == PySlice(words, l.start, end)
    IN  [start  |-> Advance(l.start, chunk_size, overlap),
         chunks |-> IF KeepsWindow(chunk_words, min_chunk_size)
                    THEN Append(l.chunks, Join(chunk_words))
                    ELSE l.chunks]

\* lines 114-128: the while loop run to its end (for the configurations with
\* which it ends)
RECURSIVE WindowLoop(_, _, _, _, _)
WindowLoop(words, chunk_size, overlap, min_chunk_size, l) ==
    IF l.start < Len(words)
    THEN LET nl == WindowStep(words, chunk_size, overlap, min_chunk_size, l)
         IN  IF nl.start >= Len(words)
             THEN nl.chunks
             ELSE WindowLoop(words, chunk_size, overlap, min_chunk_size, nl)
    ELSE l.chunks

\* _split_into_chunks(text, chunk_size, overlap) as a function of its
\* arguments and the configuration
SplitIntoChunks(text, chunk_size_arg, overlap_arg, cfg) ==
    LET chunk_size == OrDefault(chunk_size_arg, cfg.chunk_size)
        overlap == OrDefault(overlap_arg, cfg.overlap)
        words == Split(text)
    IN  IF Len(words) <= chunk_size
        THEN WholeText(text)
        ELSE WindowLoop(words, chunk_size, overlap, cfg.min_chunk_size,
                        [start |-> 0, chunks |-> <<>>])

\* no call of _split_into_chunks is under way
NoChunker == [pc |-> "idle", text |-> Text(0, "single"), start |-> 0, chunks |-> <<>>]

----------------------------------------------------------------------------
(* The CV files of the data directory *)

\* the files cvs_dir.glob finds, in the order index_all_cvs takes them
FileNames == <<"ola.json", "kari.json">>

\* what a file may be: not there, not readable, empty (or whitespace only),
\* not valid JSON, or a CV whose extracted text has 1..MaxFileTokens tokens
Contents ==
    {[status |-> s, tokens |-> 0] : s \in {"missing", "unreadable", "empty", "malformed"}}
        \cup {[status |-> "ok", tokens |-> n] : n \in 1..MaxFileTokens}

NoFiles == [k \in 1..Len(FileNames) |-> [status |-> "missing", tokens |-> 0]]

\* content of the file called name
FileContent(fs, name) == fs[CHOOSE k \in 1..Len(FileNames) : FileNames[k] = name]

\* config.SUPPORTED_CV_FORMATS
SUPPORTED_CV_FORMATS == <<".json", ".md", ".txt", ".markdown">>

\* the names a CV file of one of the two candidates may have in the
\* directory: a stem and a supported extension
SupportedNames ==
    {stem \o ext : stem \in {"ola", "kari"}, ext \in Range(SUPPORTED_CV_FORMATS)}

\* file_path.stem
Stem(name) ==
    IF name \in {"ola" \o ext : ext \in Range(SUPPORTED_CV_FORMATS)} THEN "ola" ELSE "kari"

\* file_path.suffix
Suffix(name) == CHOOSE ext \in Range(SUPPORTED_CV_FORMATS) : name = Stem(name) \o ext

\* _user_metadata.office_name of the CV in the file
FileOffice(name) == IF Stem(name) = "ola" THEN "Oslo" ELSE "Bergen"

\* lines 481-483: the files index_all_cvs discovers, in order
RECURSIVE Discover(_, _)
Discover(fs, k) ==
    IF k > Len(FileNames) THEN <<>>
    ELSE (IF fs[k].status = "missing" THEN <<>> ELSE <<FileNames[k]>>)
             \o Discover(fs, k + 1)

----------------------------------------------------------------------------
(* CVIndexer._parse_cv_file: src/cv_indexer.py *)

\* {} returned with an empty text
NoMetadata == [source |-> "none", office |-> "none"]

\* open() raises for a file that is not there or not readable; an empty file
\* gives ("", {}).  A .json file that is not valid JSON gives ("", {}) too,
\* otherwise the extracted text and the base metadata (of which the model
\* keeps source and office).  Any other file is text as it is (what is not
\* valid JSON is a one-token text there) and its metadata has no office.
ParseCvFile(name, content) ==
    IF content.status \in {"missing", "unreadable"}
    THEN [raised |-> TRUE, content |-> Text(0, "single"), metadata |-> NoMetadata]
    ELSE IF content.status = "empty"
    THEN [raised |-> FALSE, content |-> Text(0, "single"), metadata |-> NoMetadata]
    ELSE IF Suffix(name) = ".json"
    THEN IF content.status = "malformed"
         THEN [raised |-> FALSE, content |-> Text(0, "single"), metadata |-> NoMetadata]
         ELSE [raised |-> FALSE, content |-> Text(content.tokens, "lines"),
               metadata |-> [source |-> name, office |-> FileOffice(name)]]
    ELSE [raised |-> FALSE,
          content |-> Text(IF content.status = "malformed" THEN 1 ELSE content.tokens,
                           "lines"),
          metadata |-> [source |-> name, office |-> "absent"]]

----------------------------------------------------------------------------
(* The ChromaDB collection: add, get, delete, delete_collection *)

EmptyCollection == [id \in {} |-> StoredChunk(id)]

\* an add that takes the place of what is stored under the same ids and of
\* every other chunk of the same sources
CollectionAddReplacing(coll, batch) ==
    LET sources == {batch[id].metadata.source : id \in DOMAIN batch}
        kept == {id \in DOMAIN coll \ DOMAIN batch :
                     coll[id].metadata.source \notin sources}
    IN  [id \in kept \cup DOMAIN batch |->
            IF id \in DOMAIN batch THEN batch[id] ELSE coll[id]]

\* collection.add(ids, documents, metadatas) when it does not raise: a
\* record whose id is stored already is ignored (the stored record stays as
\* it is), the others are inserted
CollectionAdd(coll, batch) ==
    [id \in DOMAIN coll \cup DOMAIN batch |->
        IF id \in DOMAIN coll THEN coll[id] ELSE batch[id]]

\* a get that ignores its where clause
CollectionGetUnfiltered(coll, where) == DOMAIN coll

\* collection.get(where=...)['ids']
CollectionGet(coll, where) == {id \in DOMAIN coll : Matches(coll, where, id)}

\* collection.delete(ids=...)
CollectionDelete(coll, ids) == [id \in DOMAIN coll \ ids |-> coll[id]]

----------------------------------------------------------------------------
(* CVIndexer.index_cv: src/cv_indexer.py *)

\* chunk ids numbered from the number of chunks stored
ChunkIdFromCount(stem, i) ==
    LET j == (i + Cardinality(DOMAIN collection)) % 3
    IN  IF stem = "ola" THEN AllIds[2 * j + 1] ELSE AllIds[2 * j + 2]

\* line 439: chunk_id = f"{file_path.stem}_{i}"
ChunkId(stem, i) == IF stem = "ola" THEN AllIds[2 * i + 1] ELSE AllIds[2 * i + 2]

\* lines 437-450: the ids, documents and metadatas prepared for the chunks
\* of a file, as a function from id to record
Batch(name, base_metadata, chunks) ==
    LET ids == {ChunkId(Stem(name), i - 1) : i \in 1..Len(chunks)}
        IndexOf(id) == CHOOSE i \in 1..Len(chunks) : ChunkId(Stem(name), i - 1) = id
    IN  [id \in ids |->
            [document |-> chunks[IndexOf(id)],
             metadata |-> [source |-> base_metadata.source,
                           office |-> base_metadata.office,
                           chunk_id |-> IndexOf(id) - 1,
                           total_chunks |-> Len(chunks)]]]

\* index_cv(file_path) on the collection coll, where collection.add raises
\* or not (add_ok; an add of no record raises always): the value returned,
\* the collection afterwards and the batch handed to add
IndexCv(coll, name, content, cfg, add_ok) ==
    LET parsed == ParseCvFile(name, content)
        chunks == SplitIntoChunks(parsed.content, "None", "None", cfg)
        batch == Batch(name, parsed.metadata, chunks)
    IN  IF parsed.raised \/ Len(Split(parsed.content)) = 0
        THEN [ret |-> 0, collection |-> coll, batch |-> EmptyCollection]
        ELSE IF ~add_ok \/ Len(chunks) = 0
        THEN [ret |-> 0, collection |-> coll, batch |-> batch]
        ELSE [ret |-> Len(chunks), collection |-> CollectionAdd(coll, batch),
              batch |-> batch]

----------------------------------------------------------------------------
(* CVIndexer.index_all_cvs: src/cv_indexer.py *)

\* lines 496-501: index_cv on each file in turn, from the collection coll;
\* add_ok[k] tells whether collection.add works for file k.  Gives the
\* collection afterwards and the value index_cv returned for each file.
RECURSIVE IndexEach(_, _, _, _, _)
IndexEach(coll, cv_files, fs, cfg, add_ok) ==
    IF cv_files = <<>> THEN [collection |-> coll, counts |-> <<>>]
    ELSE LET name == Head(cv_files)
             k == CHOOSE j \in 1..Len(FileNames) : FileNames[j] = name
             one == IndexCv(coll, name, fs[k], cfg, add_ok[k])
             rest == IndexEach(one.collection, Tail(cv_files), fs, cfg, add_ok)
         IN  [collection |-> rest.collection, counts |-> <<one.ret>> \o rest.counts]

RECURSIVE Sum(_)
Sum(s) == IF s = <<>> THEN 0 ELSE Head(s) + Sum(Tail(s))

\* number of k with s[k] = 0
Zeros(s) == Cardinality({k \in 1..Len(s) : s[k] = 0})

NoStats == [keys |-> {}, total_files |-> 0, total_chunks |-> 0, failed |-> 0, success |-> 0]

\* lines 485-511: the dictionary index_all_cvs returns; keys is the set of
\* its keys (a key that is not in the dictionary is 0 in the record)
Stats(cv_files, counts) ==
    IF cv_files = <<>>
    THEN [keys |-> {"total_files", "total_chunks", "failed"},
          total_files |-> 0, total_chunks |-> 0, failed |-> 0, success |-> 0]
    ELSE [keys |-> {"total_files", "total_chunks", "failed", "success"},
          total_files |-> Len(cv_files),
          total_chunks |-> Sum(counts),
          failed |-> Zeros(counts),
          success |-> Len(cv_files) - Zeros(counts)]

----------------------------------------------------------------------------
(* CVIndexer.delete_cv, get_stats and __init__: src/cv_indexer.py *)

\* lines 643-656: the collection after delete_cv(source), where
\* collection.get and collection.delete work or raise; what raises is
\* logged and delete_cv returns
DeleteCv(coll, source, get_ok, delete_ok) ==
    LET ids == CollectionGet(coll, [key |-> "source", value |-> source])
    IN  IF get_ok /\ ids # {} /\ delete_ok
        THEN CollectionDelete(coll, ids)
        ELSE coll

\* lines 611-625: total_chunks and unique_cvs of get_stats
GetStats(coll) ==
    [total_chunks |-> Cardinality(DOMAIN coll),
     unique_cvs |-> Cardinality({coll[id].metadata.source : id \in DOMAIN coll})]

\* lines 71-85: the collection after CVIndexer(reset): with reset the
\* collection is deleted (a failure of delete_collection is passed over)
\* and get_or_create_collection gives the collection that is there or a
\* new empty one
Construct(coll, reset, delete_ok) ==
    IF reset /\ delete_ok THEN EmptyCollection ELSE coll

----------------------------------------------------------------------------
(* Text extraction from a FlowCase document: _extract_text_from_json.      *)
(* A string is a record: the empty string, a string of whitespace only, or *)
(* a text, told apart from every other text of the document by the place   *)
(* it is written at (the number of the entry in its list, 0 for the        *)
(* document itself, the key and the locale).  A value of the document is   *)
(* absent, a string or a dict from locales to strings.  The text returned  *)
(* is the sequence of the lines joined by "\n".                            *)

Empty == [kind |-> "empty", entry |-> 0, key |-> "", locale |-> ""]

Blank(k, key) == [kind |-> "blank", entry |-> k, key |-> key, locale |-> ""]

TextAt(k, key, locale) == [kind |-> "text", entry |-> k, key |-> key, locale |-> locale]

\* s.strip(), as far as its emptiness goes
Strip(s) == IF s.kind = "blank" THEN Empty ELSE s

Absent == [type |-> "absent"]

Str(s) == [type |-> "str", s |-> s]

Dict(m) == [type |-> "dict", m |-> m]

\* the truth value Python gives a value: a missing key (None), "" and {}
\* are false
Truthy(value) ==
    CASE value.type = "absent" -> FALSE
      [] value.type = "str" -> value.s # Empty
      [] value.type = "dict" -> DOMAIN value.m # {}

\* value.get('no', value.get('en', value.get('int', '')))
Chain(m) ==
    IF "no" \in DOMAIN m THEN m["no"]
    ELSE IF "en" \in DOMAIN m THEN m["en"]
    ELSE IF "int" \in DOMAIN m THEN m["int"]
    ELSE Empty

\* the string of a multilingual field: "if isinstance(x, dict): x = x.get(...)",
\* then "str(x) if x else ''" or "if not isinstance(x, str): x = ''"
Localized(value) ==
    CASE value.type = "absent" -> Empty
      [] value.type = "str" -> value.s
      [] value.type = "dict" -> Chain(value.m)

\* entry.get(key, '')
Get(f, key) == IF f[key].type = "absent" THEN Str(Empty) ELSE f[key]

\* entry.get(key, entry.get(fallback, ''))
GetOr(f, key, fallback) == IF f[key].type = "absent" THEN Get(f, fallback) ELSE f[key]

\* one appended line: what it is, the section it belongs to and the strings
\* formatted into it
Line(kind, section, parts) == [kind |-> kind, section |-> section, parts |-> parts]

RECURSIVE Concat(_)
\* the lines (or names) of all entries, in the order of the entries
Concat(ss) == IF ss = <<>> THEN <<>> ELSE Head(ss) \o Concat(Tail(ss))

\* lines 193-194: "# {name}"
NameLines(cv_data) ==
    IF Truthy(cv_data.name) THEN <<Line("name", "head", <<cv_data.name.s>>)>> ELSE <<>>

\* lines 197-200: "**Avdeling:** {office}"
OfficeLines(cv_data) ==
    IF Truthy(cv_data.office_name)
    THEN <<Line("office", "head", <<cv_data.office_name.s>>)>> ELSE <<>>

\* lines 204-210, for one of the fields summary, profile, description
FieldLines(cv_data, field) ==
    LET value == cv_data[field]
    IN  IF Truthy(value) /\ Strip(Localized(value)) # Empty
        THEN <<Line("summary", "head", <<Localized(value)>>)>>
        ELSE <<>>

\* lines 203-210
SummaryLines(cv_data) ==
    FieldLines(cv_data, "summary") \o FieldLines(cv_data, "profile")
        \o FieldLines(cv_data, "description")

\* entry.get('disabled') of an entry in the mutated model: never set
DisabledIgnored(entry) == FALSE

\* entry.get('disabled'), lines 218, 297 and 337
Disabled(entry) == entry.disabled

\* lines 225-229: the name of one skill, "" when it has none
SkillName(tags) == IF tags.type = "dict" THEN Chain(tags.m) ELSE Empty

\* lines 222-229
SkillNames(t) ==
    SelectSeq([i \in 1..Len(t.technology_skills) |-> SkillName(t.technology_skills[i])],
              LAMBDA skill_name : skill_name # Empty)

\* lines 232-240
FallbackNames(t) ==
    IF t.technology_skills # <<>> THEN <<>>
    ELSE IF Get(t.f, "name").type = "str" /\ Get(t.f, "name").s # Empty
         THEN <<Get(t.f, "name").s>>
    ELSE IF t.f["category"].type = "dict" /\ Truthy(t.f["category"])
                /\ Chain(t.f["category"].m) # Empty
         THEN <<Chain(t.f["category"].m)>>
    ELSE <<>>

\* lines 216-240, for one entry of technologies
TechNames(t) == IF Disabled(t) THEN <<>> ELSE SkillNames(t) \o FallbackNames(t)

\* lines 213-242: "## Technologies" and the names, in one line
TechnologyLines(cv_data) ==
    LET list == cv_data.technologies
        techs == Concat([i \in 1..Len(list) |-> TechNames(list[i])])
    IN  IF list # <<>> /\ techs # <<>>
        THEN <<Line("technologies", "technologies", techs)>>
        ELSE <<>>

\* lines 248-269, for one entry of work_experiences
WorkEntryLines(exp) ==
    LET employer == Localized(Get(exp.f, "employer"))
        role == Localized(GetOr(exp.f, "role", "title"))
        desc == Localized(GetOr(exp.f, "description", "long_description"))
    IN  (IF employer # Empty \/ role # Empty
         THEN <<Line("header", "work_experiences", <<role, employer>>)>> ELSE <<>>)
        \o (IF desc # Empty /\ Strip(desc) # Empty
            THEN <<Line("body", "work_experiences", <<desc>>)>> ELSE <<>>)

\* lines 245-269
WorkLines(cv_data) ==
    LET list == cv_data.work_experiences
    IN  IF list # <<>>
        THEN <<Line("heading", "work_experiences", <<>>)>>
                 \o Concat([i \in 1..Len(list) |-> WorkEntryLines(list[i])])
        ELSE <<>>

\* lines 275-287, for one entry of educations
EducationEntryLines(edu) ==
    LET school == Localized(Get(edu.f, "school"))
        degree == Localized(GetOr(edu.f, "degree", "title"))
    IN  IF school # Empty \/ degree # Empty
        THEN <<Line("education", "educations", <<degree, school>>)>> ELSE <<>>

\* lines 272-287
EducationLines(cv_data) ==
    LET list == cv_data.educations
    IN  IF list # <<>>
        THEN <<Line("heading", "educations", <<>>)>>
                 \o Concat([i \in 1..Len(list) |-> EducationEntryLines(list[i])])
        ELSE <<>>

\* lines 295-327, for one entry of key_qualifications
QualificationEntryLines(qual) ==
    IF qual.type = "str" THEN <<Line("bullet", "key_qualifications", <<qual.s>>)>>
    ELSE IF Disabled(qual) THEN <<>>
    ELSE LET label == Localized(Get(qual.f, "label"))
             long == Localized(GetOr(qual.f, "long_description", "description"))
             desc == IF long = Empty THEN Localized(Get(qual.f, "text")) ELSE long
         IN  IF label # Empty /\ Strip(desc) # Empty
             THEN <<Line("header", "key_qualifications", <<label>>),
                    Line("body", "key_qualifications", <<desc>>)>>
             ELSE IF Strip(desc) # Empty
             THEN <<Line("body", "key_qualifications", <<desc>>)>>
             ELSE <<>>

\* lines 290-327
QualificationLines(cv_data) ==
    LET quals == cv_data.key_qualifications
    IN  IF quals # <<>>
        THEN <<Line("heading", "key_qualifications", <<>>)>>
                 \o Concat([i \in 1..Len(quals) |-> QualificationEntryLines(quals[i])])
        ELSE <<>>

\* lines 335-386, for one entry of project_experiences
ProjectEntryLines(proj) ==
    IF Disabled(proj) THEN <<>>
    ELSE LET customer == Localized(Get(proj.f, "customer"))
             role == Localized(Get(proj.f, "role"))
             long_desc == Localized(Get(proj.f, "long_description"))
             short_desc == Localized(Get(proj.f, "description"))
             header_parts ==
                 (IF short_desc # Empty THEN <<short_desc>>
                  ELSE IF role # Empty THEN <<role>> ELSE <<>>)
                 \o (IF customer # Empty THEN <<customer>> ELSE <<>>)
         IN  (IF header_parts # <<>>
              THEN <<Line("header", "project_experiences", header_parts)>> ELSE <<>>)
             \o (IF Strip(long_desc) # Empty
                 THEN <<Line("body", "project_experiences", <<long_desc>>)>> ELSE <<>>)

\* lines 330-386
ProjectLines(cv_data) ==
    LET projects == cv_data.project_experiences
    IN  IF projects # <<>>
        THEN <<Line("heading", "project_experiences", <<>>)>>
                 \o Concat([i \in 1..Len(projects) |-> ProjectEntryLines(projects[i])])
        ELSE <<>>

\* filter(None, lines): the lines that are not the empty string; only a body
\* is a string of the document as it is
FilterNone(lines) ==
    SelectSeq(lines, LAMBDA l : ~(l.kind = "body" /\ l.parts = <<Empty>>))

\* _extract_text_from_json(cv_data): the lines of the text returned
ExtractTextFromJson(cv_data) ==
    FilterNone(NameLines(cv_data) \o OfficeLines(cv_data) \o SummaryLines(cv_data)
                   \o TechnologyLines(cv_data) \o WorkLines(cv_data)
                   \o EducationLines(cv_data) \o QualificationLines(cv_data)
                   \o ProjectLines(cv_data))

\* the locales of a multilingual field
Locales == {"no", "en", "int"}

\* the dicts of the field key of entry k over the given sets of locales: each
\* locale of the dict holds "" or a text
LocaleMaps(k, key, domains) ==
    UNION {{[l \in D |-> IF l \in E THEN TextAt(k, key, l) ELSE Empty] : E \in SUBSET D}
               : D \in domains}

\* the dicts explored in the fields of an entry: {} and the dicts over no and en
EntryMaps(k, key) == LocaleMaps(k, key, {{}, {"no", "en"}})

\* the values explored for a field of an entry that holds the key
Present(k, key) ==
    {Str(TextAt(k, key, "")), Str(Blank(k, key))}
        \cup {Dict(m) : m \in EntryMaps(k, key)}

\* the fields explored for entry k: no key, one key with any value, or every
\* key with a text
Fields(k, keys) ==
    {[key \in keys |-> Absent]}
        \cup UNION {{[key \in keys |-> IF key = one THEN v ELSE Absent] : v \in Present(k, one)}
                        : one \in keys}
        \cup {[key \in keys |-> Str(TextAt(k, key, ""))]}

\* the keys _extract_text_from_json reads in an entry of each section
TechnologyKeys == {"name", "category"}
WorkKeys == {"employer", "role", "title", "description", "long_description"}
EducationKeys == {"school", "degree", "title"}
QualificationKeys == {"label", "long_description", "description", "text"}
ProjectKeys == {"customer", "role", "long_description", "description"}

\* the technology_skills explored for entry k: none, or one skill with or
\* without tags
Skills(k) ==
    {<<>>, <<Absent>>} \cup {<<Dict(m)>> : m \in EntryMaps(k, "tags")}

\* the entries explored at place k of the list of a section
Entries(section, k) ==
    CASE section = "technologies" ->
           {[type |-> "dict", disabled |-> d, technology_skills |-> skills, f |-> f] :
                d \in BOOLEAN, skills \in Skills(k), f \in {[key \in TechnologyKeys |-> Absent]}}
               \cup {[type |-> "dict", disabled |-> d, technology_skills |-> <<>>, f |-> f] :
                         d \in BOOLEAN, f \in Fields(k, TechnologyKeys)}
               \cup {[type |-> "dict", disabled |-> d,
                      technology_skills |-> <<Dict([l \in {"no"} |-> TextAt(k, "tags", l)])>>,
                      f |-> [key \in TechnologyKeys |-> Str(TextAt(k, key, ""))]] :
                         d \in BOOLEAN}
      [] section = "work_experiences" ->
           {[type |-> "dict", disabled |-> FALSE, f |-> f] : f \in Fields(k, WorkKeys)}
      [] section = "educations" ->
           {[type |-> "dict", disabled |-> FALSE, f |-> f] : f \in Fields(k, EducationKeys)}
      [] section = "key_qualifications" ->
           {[type |-> "dict", disabled |-> d, f |-> f] :
                d \in BOOLEAN, f \in Fields(k, QualificationKeys)}
               \cup {[type |-> "str", s |-> TextAt(k, "", "")]}
      [] section = "project_experiences" ->
           {[type |-> "dict", disabled |-> d, f |-> f] :
                d \in BOOLEAN, f \in Fields(k, ProjectKeys)}

Sections ==
    {"technologies", "work_experiences", "educations", "key_qualifications",
     "project_experiences"}

\* the document {}
NoDocument ==
    [name |-> Absent, office_name |-> Absent, summary |-> Absent, profile |-> Absent,
     description |-> Absent, technologies |-> <<>>, work_experiences |-> <<>>,
     educations |-> <<>>, key_qualifications |-> <<>>, project_experiences |-> <<>>]

\* the documents explored without a section: name, office and the three
\* summary fields, summary with every string and every dict over the locales
HeadDocuments ==
    {[NoDocument EXCEPT !.name = name, !.office_name = office, !.summary = summary,
                        !.profile = profile, !.description = description] :
         name \in {Absent, Str(TextAt(0, "name", ""))},
         office \in {Absent, Str(TextAt(0, "office_name", ""))},
         summary \in {Absent, Str(Empty), Str(Blank(0, "summary")),
                      Str(TextAt(0, "summary", ""))}
                         \cup {Dict(m) : m \in LocaleMaps(0, "summary", SUBSET Locales)},
         profile \in {Absent, Str(TextAt(0, "profile", ""))},
         description \in {Absent, Str(TextAt(0, "description", ""))}}

\* the document that holds a name and nothing else
NamedDocument == [NoDocument EXCEPT !.name = Str(TextAt(0, "name", ""))]

\* no extraction under way
NoExtraction == [pc |-> "idle", cv_data |-> NoDocument, lines |-> <<>>]

----------------------------------------------------------------------------
\* the last operation of the indexer: which one, its argument, the value it
\* returned, whether it raised, whether the index worked, the ids stored
\* before it, the batch index_cv handed to collection.add and whether this
\* index_cv came right after an index_cv of the same file, and for
\* index_all_cvs the files it found, what index_cv returned for each and
\* the statistics
NoOp ==
    [kind |-> "none", arg |-> "none", ret |-> 0, raised |-> FALSE, index_ok |-> TRUE,
     before |-> {}, batch |-> EmptyCollection, again |-> FALSE,
     cv_files |-> <<>>, counts |-> <<>>, stats |-> NoStats]

----------------------------------------------------------------------------
(* Sequential callers *)

Threads == 1..MaxThreads

NoLocal == [built |-> "None", got |-> "None"]

Init ==
    /\ collection \in {[id \in S |-> StoredChunk(id)] : S \in StartContents}
    /\ enable_reranking \in BOOLEAN
    /\ reranker = "None"
    /\ constructions = 0
    /\ call = NoCall
    /\ result = NoResult
    /\ pc = [t \in Threads |-> "idle"]
    /\ local = [t \in Threads |-> NoLocal]
    /\ config = DefaultConfig
    /\ files = NoFiles
    /\ op = NoOp
    /\ chunker = NoChunker
    /\ extraction = NoExtraction

Next ==
    \/ SearchIndexFails
    \/ SearchPlain
    \/ SearchNoReranker
    \/ SearchReranked
    \/ SearchScoringFails
    \/ ReturnToCaller

Spec == Init /\ [][Next]_vars

----------------------------------------------------------------------------
(* Concurrent callers: threads that call search with reranking requested.   *)
(* _get_reranker holds no lock, so a thread can be preempted between the    *)
(* test of _reranker (line 26), the construction (line 29), the store to    *)
(* the global (lines 29, 34) and the read of the global for the return      *)
(* value (line 35).                                                         *)

\* lines 551-575: the thread's index query; with reranking requested and a
\* candidate returned it goes on to _get_reranker(), otherwise the call ends
\* here (an index failure raises, an empty answer is returned as it is)
T_Query(t) ==
    /\ pc[t] = "idle"
    /\ \E q \in Queries, n \in Ns, where \in Filters, index_ok \in BOOLEAN :
          pc' = [pc EXCEPT ![t] = IF index_ok /\ AsksReranker(q, n, where, "True")
                                  THEN "check" ELSE "idle"]
    /\ UNCHANGED <<extraction, config, files, op, chunker, collection, enable_reranking, reranker, constructions, call, result, local>>

\* lines 25-26: if config.ENABLE_RERANKING: if _reranker is None:
T_Check(t) ==
    /\ pc[t] = "check"
    /\ pc' = [pc EXCEPT ![t] = IF enable_reranking /\ reranker = "None"
                               THEN "construct" ELSE "return"]
    /\ UNCHANGED <<extraction, config, files, op, chunker, collection, enable_reranking, reranker, constructions, call, result, local>>

\* lines 28-29 and 31: CrossEncoderReranker() returns the object or raises
T_Construct(t) ==
    /\ pc[t] = "construct"
    /\ \E ctor_ok \in BOOLEAN :
          local' = [local EXCEPT ![t].built = IF ctor_ok THEN "Object" ELSE "False"]
    /\ constructions' = constructions + 1
    /\ pc' = [pc EXCEPT ![t] = "assign"]
    /\ UNCHANGED <<extraction, config, files, op, chunker, collection, enable_reranking, reranker, call, result>>

\* line 29 (store of the object) or line 34 (_reranker = False)
T_Assign(t) ==
    /\ pc[t] = "assign"
    /\ reranker' = local[t].built
    /\ pc' = [pc EXCEPT ![t] = "return"]
    /\ UNCHANGED <<extraction, config, files, op, chunker, collection, enable_reranking, constructions, call, result, local>>

\* line 35: return _reranker
T_Return(t) ==
    /\ pc[t] = "return"
    /\ local' = [local EXCEPT ![t].got = reranker]
    /\ pc' = [pc EXCEPT ![t] = "rank"]
    /\ UNCHANGED <<extraction, config, files, op, chunker, collection, enable_reranking, reranker, constructions, call, result>>

\* lines 577-602: rerank with the reranker that was returned, or go on with
\* the original results; the call ends and its locals are gone
T_Finish(t) ==
    /\ pc[t] = "rank"
    /\ local' = [local EXCEPT ![t] = NoLocal]
    /\ pc' = [pc EXCEPT ![t] = "idle"]
    /\ UNCHANGED <<extraction, config, files, op, chunker, collection, enable_reranking, reranker, constructions, call, result>>

NextConc ==
    \E t \in Threads :
        \/ T_Query(t)
        \/ T_Check(t)
        \/ T_Construct(t)
        \/ T_Assign(t)
        \/ T_Return(t)
        \/ T_Finish(t)

SpecConc == Init /\ [][NextConc]_vars

----------------------------------------------------------------------------
(* _split_into_chunks step by step, one pass of the loop at a time *)

otherThanChunker ==
    <<collection, enable_reranking, reranker, constructions, call, result, pc, local,
      config, files, op, extraction>>

\* lines 102-112: index_cv calls self._split_into_chunks(content); a short
\* text is returned whole, a longer one enters the loop with start = 0
ChunkCall ==
    /\ chunker.pc = "idle"
    /\ \E text \in Texts :
          LET chunk_size == OrDefault("None", config.chunk_size)
              words == Split(text)
          IN  chunker' = IF Len(words) <= chunk_size
                         THEN [pc |-> "done", text |-> text, start |-> 0,
                               chunks |-> WholeText(text)]
                         ELSE [pc |-> "loop", text |-> text, start |-> 0,
                               chunks |-> <<>>]
    /\ UNCHANGED otherThanChunker

\* lines 114-128: one pass of the while loop; the loop is left by the break
\* of line 128 or by its own test.  The model follows a loop that does not
\* end for MaxPasses passes at most.
ChunkWindow ==
    /\ chunker.pc = "loop"
    /\ Len(chunker.chunks) <= MaxPasses
    /\ chunker.start >= -MaxPasses
    /\ LET words == Split(chunker.text)
           chunk_size == OrDefault("None", config.chunk_size)
           overlap == OrDefault("None", config.overlap)
       IN  IF chunker.start < Len(words)
           THEN LET nl == WindowStep(words, chunk_size, overlap,
                                     config.min_chunk_size,
                                     [start |-> chunker.start, chunks |-> chunker.chunks])
                IN  chunker' = [chunker EXCEPT
                                   !.start = nl.start,
                                   !.chunks = nl.chunks,
                                   !.pc = IF nl.start >= Len(words) THEN "done" ELSE "loop"]
           ELSE chunker' = [chunker EXCEPT !.pc = "done"]
    /\ UNCHANGED otherThanChunker

\* line 130: return chunks; the caller has the list
ChunkReturn ==
    /\ chunker.pc = "done"
    /\ chunker' = NoChunker
    /\ UNCHANGED otherThanChunker

InitChunk ==
    /\ collection = [id \in {} |-> StoredChunk(id)]
    /\ enable_reranking = FALSE
    /\ reranker = "None"
    /\ constructions = 0
    /\ call = NoCall
    /\ result = NoResult
    /\ pc = [t \in Threads |-> "idle"]
    /\ local = [t \in Threads |-> NoLocal]
    /\ config \in Configs
    /\ files = NoFiles
    /\ op = NoOp
    /\ chunker = NoChunker
    /\ extraction = NoExtraction

NextChunk ==
    \/ ChunkCall
    \/ ChunkWindow
    \/ ChunkReturn

\* the interpreter keeps running the loop: a pass that can be made is made
SpecChunk == InitChunk /\ [][NextChunk]_vars /\ WF_vars(ChunkWindow)

----------------------------------------------------------------------------
(* The indexer at work: one CVIndexer after another on the persisted       *)
(* collection, the data directory changing between its operations.  Each   *)
(* operation runs to completion; op tells what the last one was and did    *)
(* until its caller has taken the outcome.                                 *)

\* the chunking configurations of the processes followed here
IndexConfigs ==
    {[chunk_size |-> 2, overlap |-> 0, min_chunk_size |-> 1],
     [chunk_size |-> 3, overlap |-> 1, min_chunk_size |-> 2]}

\* the names delete_cv is called with
Sources == Range(FileNames) \cup {"unknown.md"}

otherThanIndex ==
    <<enable_reranking, reranker, constructions, call, result, pc, local, config, chunker,
      extraction>>

\* no indexer operation and no search is under way
Idle == op.kind = "none" /\ result.status = "none"

\* CVIndexer(reset): scripts/index_cvs.py, reindex.py, sync_flowcase.py and
\* the server construct an indexer, reindex.py and sync_flowcase.py with
\* reset=True
ConstructOp ==
    /\ Idle
    /\ \E reset \in BOOLEAN :
       \E delete_ok \in (IF reset THEN BOOLEAN ELSE {TRUE}) :
          /\ collection' = Construct(collection, reset, delete_ok)
          /\ op' = [NoOp EXCEPT !.kind = "construct",
                                !.arg = IF reset THEN "reset" ELSE "keep",
                                !.index_ok = delete_ok,
                                !.before = DOMAIN collection]
    /\ UNCHANGED files
    /\ UNCHANGED otherThanIndex

\* index_cv(file_path), by itself or once more right after an index_cv
IndexCvOp ==
    /\ result.status = "none"
    /\ op.kind \in {"none", "index_cv"}
    /\ \E k \in 1..Len(FileNames), add_ok \in BOOLEAN :
          LET r == IndexCv(collection, FileNames[k], files[k], config, add_ok)
          IN  /\ collection' = r.collection
              /\ op' = [NoOp EXCEPT !.kind = "index_cv",
                                    !.arg = FileNames[k],
                                    !.ret = r.ret,
                                    !.index_ok = add_ok,
                                    !.before = DOMAIN collection,
                                    !.batch = r.batch,
                                    !.again = (op.kind = "index_cv"
                                                  /\ op.arg = FileNames[k])]
    /\ UNCHANGED files
    /\ UNCHANGED otherThanIndex

\* index_all_cvs()
IndexAllCvsOp ==
    /\ Idle
    /\ \E add_ok \in [1..Len(FileNames) -> BOOLEAN] :
          LET cv_files == Discover(files, 1)
              r == IndexEach(collection, cv_files, files, config, add_ok)
          IN  /\ collection' = r.collection
              /\ op' = [NoOp EXCEPT !.kind = "index_all_cvs",
                                    !.before = DOMAIN collection,
                                    !.cv_files = cv_files,
                                    !.counts = r.counts,
                                    !.stats = Stats(cv_files, r.counts)]
    /\ UNCHANGED files
    /\ UNCHANGED otherThanIndex

\* delete_cv(source)
DeleteCvOp ==
    /\ Idle
    /\ \E source \in Sources, get_ok \in BOOLEAN, delete_ok \in BOOLEAN :
          /\ collection' = DeleteCv(collection, source, get_ok, delete_ok)
          /\ op' = [NoOp EXCEPT !.kind = "delete_cv",
                                !.arg = source,
                                !.index_ok = get_ok /\ delete_ok,
                                !.before = DOMAIN collection]
    /\ UNCHANGED files
    /\ UNCHANGED otherThanIndex

\* get_stats()
GetStatsOp ==
    /\ Idle
    /\ op' = [NoOp EXCEPT !.kind = "get_stats",
                          !.ret = GetStats(collection).total_chunks,
                          !.before = DOMAIN collection]
    /\ UNCHANGED <<collection, files>>
    /\ UNCHANGED otherThanIndex

\* search(query, 1) without filter and without reranking
SearchOp ==
    /\ Idle
    /\ \E q \in Queries : Search(q, 1, NoFilter, "False", TRUE, TRUE, TRUE, <<>>)

\* the caller of the operation has its outcome
OpReturns ==
    /\ op.kind # "none"
    /\ op' = NoOp
    /\ UNCHANGED <<collection, files>>
    /\ UNCHANGED otherThanIndex

\* download_all_cvs writes, rewrites or removes a CV file of the directory
EditFile ==
    /\ Idle
    /\ \E k \in 1..Len(FileNames), c \in Contents :
          /\ c # files[k]
          /\ files' = [files EXCEPT ![k] = c]
    /\ UNCHANGED <<collection, op>>
    /\ UNCHANGED otherThanIndex

InitIndex ==
    /\ collection = EmptyCollection
    /\ enable_reranking = FALSE
    /\ reranker = "None"
    /\ constructions = 0
    /\ call = NoCall
    /\ result = NoResult
    /\ pc = [t \in Threads |-> "idle"]
    /\ local = [t \in Threads |-> NoLocal]
    /\ config \in IndexConfigs
    /\ files \in [1..Len(FileNames) -> Contents]
    /\ op = NoOp
    /\ chunker = NoChunker
    /\ extraction = NoExtraction

NextIndex ==
    \/ ConstructOp
    \/ IndexCvOp
    \/ IndexAllCvsOp
    \/ DeleteCvOp
    \/ GetStatsOp
    \/ SearchOp
    \/ ReturnToCaller
    \/ OpReturns
    \/ EditFile

SpecIndex == InitIndex /\ [][NextIndex]_vars

----------------------------------------------------------------------------
(* Two CV files of any supported names in the directory, indexed one at a  *)
(* time.  Here files[k] carries the name of the file with its content.     *)

\* the directory holds two files of different names, each a CV with text
NamedFiles ==
    {fs \in [1..2 -> [name : SupportedNames, status : {"ok"}, tokens : 1..MaxFileTokens]] :
        fs[1].name # fs[2].name}

\* index_cv(file_path) on one of the two files
NamedIndexCvOp ==
    /\ Idle
    /\ \E k \in 1..2, add_ok \in BOOLEAN :
          LET r == IndexCv(collection, files[k].name, files[k], config, add_ok)
          IN  /\ collection' = r.collection
              /\ op' = [NoOp EXCEPT !.kind = "index_cv",
                                    !.arg = files[k].name,
                                    !.ret = r.ret,
                                    !.index_ok = add_ok,
                                    !.before = DOMAIN collection,
                                    !.batch = r.batch]
    /\ UNCHANGED files
    /\ UNCHANGED otherThanIndex

InitNames ==
    /\ collection = EmptyCollection
    /\ enable_reranking = FALSE
    /\ reranker = "None"
    /\ constructions = 0
    /\ call = NoCall
    /\ result = NoResult
    /\ pc = [t \in Threads |-> "idle"]
    /\ local = [t \in Threads |-> NoLocal]
    /\ config \in IndexConfigs
    /\ files \in NamedFiles
    /\ op = NoOp
    /\ chunker = NoChunker
    /\ extraction = NoExtraction

NextNames ==
    \/ NamedIndexCvOp
    \/ OpReturns

SpecNames == InitNames /\ [][NextNames]_vars

----------------------------------------------------------------------------
(* Text extraction, specification SpecExtract: _extract_text_from_json is  *)
(* called with a document and returns its text.  The documents are those  *)
(* with a name, an office and summary fields and no section, and those     *)
(* with a name and one section.                                            *)

otherThanExtraction ==
    <<collection, enable_reranking, reranker, constructions, call, result, pc, local,
      config, files, op, chunker>>

\* the document of the next call gets one more entry in one of its lists: a
\* document with a name and one section of up to MaxEntries entries
AddEntry ==
    /\ extraction.pc = "idle"
    /\ \E section \in Sections :
          LET list == extraction.cv_data[section]
          IN  /\ [extraction.cv_data EXCEPT ![section] = <<>>] = NamedDocument
              /\ Len(list) < MaxEntries
              /\ \E entry \in Entries(section, Len(list) + 1) :
                    extraction' = [extraction EXCEPT !.cv_data[section] = Append(list, entry)]
    /\ UNCHANGED otherThanExtraction

\* _extract_text_from_json(cv_data) runs to its return statement
ExtractCall ==
    /\ extraction.pc = "idle"
    /\ extraction' = [extraction EXCEPT !.pc = "done",
                                        !.lines = ExtractTextFromJson(extraction.cv_data)]
    /\ UNCHANGED otherThanExtraction

\* the caller takes the text
ExtractReturn ==
    /\ extraction.pc = "done"
    /\ extraction' = [extraction EXCEPT !.pc = "idle", !.lines = <<>>]
    /\ UNCHANGED otherThanExtraction

InitExtract ==
    /\ collection = EmptyCollection
    /\ enable_reranking = FALSE
    /\ reranker = "None"
    /\ constructions = 0
    /\ call = NoCall
    /\ result = NoResult
    /\ pc = [t \in Threads |-> "idle"]
    /\ local = [t \in Threads |-> NoLocal]
    /\ config = DefaultConfig
    /\ files = NoFiles
    /\ op = NoOp
    /\ chunker = NoChunker
    /\ extraction \in {[NoExtraction EXCEPT !.cv_data = cv_data] : cv_data \in HeadDocuments}

NextExtract ==
    \/ AddEntry
    \/ ExtractCall
    \/ ExtractReturn

SpecExtract == InitExtract /\ [][NextExtract]_vars

----------------------------------------------------------------------------
(* Properties *)

TypeOK ==
    /\ reranker \in RerankerStates
    /\ enable_reranking \in BOOLEAN
    /\ constructions \in Nat
    /\ result.status \in {"none", "returned", "raised"}
    /\ \A t \in Threads : pc[t] \in {"idle", "check", "construct", "assign", "return", "rank"}

\* the last search call returned a result
HasReturned == result.status = "returned"

\* the last search call reranked its candidates
Reranked == HasReturned /\ call.predict_calls = 1

\* position of a returned id in the pool the index returned
PoolPos(id) == CHOOSE k \in 1..Len(call.pool) : call.pool[k] = id

\* the score model.predict gave to a candidate of the pool
ScoreOf(id) == call.scores[PoolPos(id)]

\* candidate a ranks before candidate b: higher score, or equal score and
\* earlier in the retrieval order
RanksBefore(a, b) ==
    \/ ScoreOf(a) > ScoreOf(b)
    \/ ScoreOf(a) = ScoreOf(b) /\ PoolPos(a) < PoolPos(b)

\* C1: a search with n >= 1 returns at most min(n, MAX_SEARCH_RESULTS)
\* entries and never more entries than the index returned for the call
C1_ResultBounded ==
    (HasReturned /\ call.n >= 1) =>
        /\ call.n_results = Min(call.n, MAX_SEARCH_RESULTS)
        /\ Len(result.value.ids) <= Min(call.n, MAX_SEARCH_RESULTS)
        /\ Len(result.value.ids) <= Len(call.pool)
        /\ Len(result.value.documents) <= Min(call.n, MAX_SEARCH_RESULTS)
        /\ Len(result.value.documents) <= Len(call.pool)

\* a search that asked for fewer entries than the index returned, and
\* did not get a reranker
C1_Witness ==
    /\ HasReturned
    /\ call.n = 2
    /\ call.get_reranker_calls = 1
    /\ call.predict_calls = 0
    /\ Len(call.pool) > 2
    /\ Len(result.value.ids) = 2

\* C2: when reranking is applied, the returned entries are the first n
\* candidates of the fetched pool in descending order of rerank score, and
\* candidates of equal score keep their retrieval order
C2_RerankedOrder ==
    Reranked =>
        LET ids == result.value.ids
        IN  /\ Len(ids) = Min(call.n_results, Len(call.pool))
            /\ Range(ids) \subseteq Range(call.pool)
            /\ \A i, j \in 1..Len(ids) : i < j => RanksBefore(ids[i], ids[j])
            /\ \A x \in Range(call.pool) \ Range(ids) :
                   \A y \in Range(ids) : RanksBefore(y, x)

\* a reranked search that cut the pool, moved a later candidate to the
\* front and returned two candidates of equal score
C2_Witness ==
    /\ Reranked
    /\ Len(result.value.ids) >= 2
    /\ Len(call.pool) > Len(result.value.ids)
    /\ result.value.ids[1] # call.pool[1]
    /\ ScoreOf(result.value.ids[1]) = ScoreOf(result.value.ids[2])

\* C3: a reranker failure, in construction or in scoring, never reaches
\* the caller of search: the call returns the unranked result and the only
\* lasting effect is that reranking is disabled
C3_RerankerFailureAbsorbed ==
    LET construction_failed == call.constructed /\ reranker # "Object"
        scoring_failed == call.predict_calls = 1 /\ ~call.predict_ok
    IN  (construction_failed \/ scoring_failed) =>
            /\ HasReturned
            /\ result.value.ids = Take(call.pool, call.n_results)
            /\ reranker = "False"

\* the result is the n_results nearest matching chunks in ascending
\* distance, with their own documents, metadata and distances
UnrankedTopN(c, r) ==
    /\ r.status = "returned"
    /\ r.value.ids = CollectionQuery(collection, c.query, c.n_results, c.where)
    /\ r.value.documents = [k \in 1..Len(r.value.ids) |-> collection[r.value.ids[k]].document]
    /\ r.value.metadatas = [k \in 1..Len(r.value.ids) |-> collection[r.value.ids[k]].metadata]
    /\ r.value.distances = [k \in 1..Len(r.value.ids) |-> Distance(c.query, r.value.ids[k])]
    /\ \A i, j \in 1..Len(r.value.distances) :
           i < j => r.value.distances[i] <= r.value.distances[j]

\* C4: the search in which the construction of the reranker fails, and
\* every search after it, returns the first n candidates in ascending
\* distance and raises nothing (a search whose index query itself raises
\* is the subject of C7 and is set aside here)
C4_DisabledStaysUnranked ==
    [][(/\ call'.queries = 1
        /\ reranker = "False" \/ (call'.constructed /\ reranker' = "False")
        /\ call'.index_ok)
           => UnrankedTopN(call', result')]_vars

\* a search that asks for reranking after the construction failed, with
\* more candidates fetched than asked for
C4_Witness ==
    /\ HasReturned
    /\ reranker = "False"
    /\ call.reranker_before = "False"
    /\ call.get_reranker_calls = 1
    /\ Len(call.pool) > call.n_results
    /\ result.value.ids = Take(call.pool, call.n_results)

\* C5: over a sequence of search calls the reranker leaves "None" at most
\* once and CrossEncoderReranker() runs at most once: an available reranker
\* stays, a failed one stays failed and is not constructed again
C5_ConstructedAtMostOnce ==
    [][/\ reranker # "None" => (reranker' = reranker /\ constructions' = constructions)
       /\ constructions' <= 1
       /\ constructions' # constructions => (reranker = "None" /\ reranker' # "None")]_vars

\* a search that asks for the reranker after its construction failed, with
\* still one construction made
C5_Witness ==
    /\ call.reranker_before = "False"
    /\ call.get_reranker_calls = 1
    /\ reranker = "False"
    /\ constructions = 1

\* C6: with concurrent first calls the reranker is constructed at most once
\* and the state leaves "None" exactly once: an available reranker never
\* becomes failed, nor a failed one available
C6_OneConstructionUnderConcurrency ==
    [][/\ reranker # "None" => reranker' = reranker
       /\ constructions' <= 1]_vars

\* C7: when the index query fails, search raises, returns nothing and does
\* not touch the reranker
C7_IndexFailurePropagates ==
    (call.queries = 1 /\ ~call.index_ok) =>
        /\ result = Raised
        /\ call.get_reranker_calls = 0
        /\ call.predict_calls = 0
        /\ ~call.constructed
        /\ reranker = call.reranker_before

\* a search with reranking requested and a reranker available whose index
\* query failed
C7_Witness ==
    /\ call.queries = 1
    /\ ~call.index_ok
    /\ call.use_reranking
    /\ reranker = "Object"
    /\ result.status = "raised"

\* C8: all arrays of a returned result have the same length, position i of
\* each describes the same fetched candidate, and no candidate is repeated
C8_ParallelArrays ==
    HasReturned =>
        LET v == result.value
            I == 1..Len(v.ids)
        IN  /\ Len(v.documents) = Len(v.ids)
            /\ Len(v.metadatas) = Len(v.ids)
            /\ Len(v.distances) = Len(v.ids)
            /\ v.has_rerank_scores => Len(v.rerank_scores) = Len(v.ids)
            /\ \A i \in I :
                   /\ v.ids[i] \in Range(call.pool)
                   /\ v.documents[i] = collection[v.ids[i]].document
                   /\ v.metadatas[i] = collection[v.ids[i]].metadata
                   /\ v.distances[i] = Distance(call.query, v.ids[i])
                   /\ v.has_rerank_scores => v.rerank_scores[i] = ScoreOf(v.ids[i])
            /\ \A i, j \in I : i # j => v.ids[i] # v.ids[j]

\* C9: a result carries the rerank-score array only if its call reranked
C9_ScoresOnlyWhenReranked ==
    (HasReturned /\ call.predict_calls = 0) => ~result.value.has_rerank_scores

\* C10: an office filter goes to the one index query of the call, and every
\* returned entry is a candidate of that filtered query whose metadata
\* office equals the filter value
C10_FilterRespected ==
    (HasReturned /\ call.where.key = "office") =>
        /\ call.queries = 1
        /\ \A i \in 1..Len(result.value.ids) :
               /\ result.value.ids[i] \in
                      Range(CollectionQuery(collection, call.query, call.fetch_count, call.where))
               /\ result.value.ids[i] \in Range(call.pool)
               /\ collection[result.value.ids[i]].metadata.office = call.where.value
               /\ result.value.metadatas[i].office = call.where.value

\* a reranked search with an office filter that returned entries while the
\* collection holds a chunk of another office
C10_Witness ==
    /\ Reranked
    /\ call.where.key = "office"
    /\ Len(result.value.ids) >= 2
    /\ \E id \in DOMAIN collection : collection[id].metadata.office # call.where.value

----------------------------------------------------------------------------
(* Properties of the chunker *)

\* a chunking configuration is valid when size > overlap >= 0 and
\* min_size <= size
ValidConfig(cfg) ==
    /\ cfg.chunk_size > cfg.overlap
    /\ cfg.overlap >= 0
    /\ cfg.min_chunk_size <= cfg.chunk_size

\* number of tokens of the text being chunked
TokenCount == Len(Split(chunker.text))

\* the chunker has entered its loop with a valid configuration
LoopsValid == chunker.pc = "loop" /\ ValidConfig(config)

\* C15: with a valid configuration chunking terminates: every pass of the
\* loop moves start up by exactly size - overlap, which is more than zero,
\* the loop is left as soon as start has reached the token count, and a
\* call that has entered the loop gets to its return
C15_ChunkingTerminates ==
    /\ [][LoopsValid =>
            /\ chunker'.start = chunker.start + (config.chunk_size - config.overlap)
            /\ chunker'.start > chunker.start
            /\ (chunker'.start >= TokenCount <=> chunker'.pc = "done")]_vars
    /\ (LoopsValid ~> chunker.pc = "done")

\* a call with a valid configuration and an overlap has returned after
\* more than one pass
C15_Witness ==
    /\ chunker.pc = "done"
    /\ ValidConfig(config)
    /\ config.overlap > 0
    /\ chunker.start >= TokenCount
    /\ Len(chunker.chunks) >= 2

\* the call of _split_into_chunks has returned its chunks
ChunkerDone == chunker.pc = "done"

\* every chunk returned has between min_size and size tokens
ChunkSizesBounded ==
    \A i \in 1..Len(chunker.chunks) :
        /\ Len(Split(chunker.chunks[i])) >= config.min_chunk_size
        /\ Len(Split(chunker.chunks[i])) <= config.chunk_size

\* C16 as stated: for any text and any valid configuration every chunk
\* returned has a token count between min_size and size
C16_ChunkSizesBounded ==
    (ChunkerDone /\ ValidConfig(config)) => ChunkSizesBounded

\* C16 amended: for a text of more than size tokens and a valid
\* configuration every chunk returned has a token count between min_size
\* and size (a text of at most size tokens is returned whole, however few
\* tokens it has)
C16_WindowSizesBounded ==
    (ChunkerDone /\ ValidConfig(config) /\ TokenCount > config.chunk_size)
        => ChunkSizesBounded

\* a long text was chunked with a valid configuration and its last window,
\* shorter than min_size, was left out
C16_Witness ==
    /\ ChunkerDone
    /\ ValidConfig(config)
    /\ TokenCount > config.chunk_size
    /\ config.min_chunk_size >= 2
    /\ Len(chunker.chunks) >= 1
    /\ LET last == Split(chunker.chunks[Len(chunker.chunks)])
       IN  last[Len(last)] # TokenCount

\* C17: an invalid configuration is rejected before any chunking work: the
\* chunker never is in its window loop with one, and never answers a text
\* of more than size tokens with no chunk at all
C17_InvalidConfigRejected ==
    ~ValidConfig(config) =>
        /\ chunker.pc # "loop"
        /\ ~(ChunkerDone /\ TokenCount > config.chunk_size /\ chunker.chunks = <<>>)

\* C18: a text of at most size tokens gives exactly one chunk, the text
\* itself, unchanged
C18_ShortTextWhole ==
    (ChunkerDone /\ TokenCount <= config.chunk_size)
        => chunker.chunks = <<chunker.text>>

\* a text of several lines and at most size tokens has been returned
C18_Witness ==
    /\ ChunkerDone
    /\ TokenCount <= config.chunk_size
    /\ TokenCount >= 2
    /\ chunker.text.layout = "lines"
    /\ Len(chunker.chunks) = 1

----------------------------------------------------------------------------
(* Properties of the indexer *)

\* the ids of the stored chunks of a source
ChunksOf(coll, source) == {id \in DOMAIN coll : coll[id].metadata.source = source}

\* the sources that have a chunk stored
StoredSources == {collection[id].metadata.source : id \in DOMAIN collection}

\* C11: in every state of the index the chunks of a source have the chunk
\* indices 0..k-1, each once, and all carry total_chunks = k, where k is
\* the number of chunks stored for the source
C11_ChunksContiguous ==
    \A source \in StoredSources :
        LET ids == ChunksOf(collection, source)
            k == Cardinality(ids)
        IN  /\ {collection[id].metadata.chunk_id : id \in ids} = 0..(k - 1)
            /\ \A id \in ids : collection[id].metadata.total_chunks = k

\* the step is a second index_cv of a file right after a first one that
\* did not fail at collection.add, the file being the same as it was
SecondRun ==
    /\ op.kind = "index_cv"
    /\ op.ret > 0 \/ DOMAIN op.batch = {}
    /\ op'.kind = "index_cv"
    /\ op'.arg = op.arg
    /\ files' = files

\* C12: indexing the same unchanged source twice is idempotent: after the
\* second run the index holds the same chunk ids for the source as after
\* the first, with the same total_chunks, and no more chunks in all
C12_ReindexIdempotent ==
    [][SecondRun =>
        /\ ChunksOf(collection', op.arg) = ChunksOf(collection, op.arg)
        /\ \A id \in ChunksOf(collection, op.arg) :
               collection'[id].metadata.total_chunks
                   = collection[id].metadata.total_chunks
        /\ Cardinality(DOMAIN collection') = Cardinality(DOMAIN collection)]_vars

\* a file of several chunks has been indexed a second time in a row, its
\* chunk ids being stored already
C12_Witness ==
    /\ op.kind = "index_cv"
    /\ op.again
    /\ op.ret >= 2
    /\ DOMAIN op.batch \subseteq op.before
    /\ DOMAIN op.batch \subseteq DOMAIN collection

\* the step is an index_cv
IndexCvStep == op'.kind = "index_cv"

\* index_cv fails in its source: the file cannot be read or parsed, its
\* text is empty, or the write to the index fails
SourceFails ==
    LET parsed == ParseCvFile(op'.arg, FileContent(files, op'.arg))
    IN  \/ parsed.raised
        \/ FileContent(files, op'.arg).status = "malformed"
        \/ Len(Split(parsed.content)) = 0
        \/ ~op'.index_ok

\* the chunks of the batch that are in the index after the step as they
\* were handed over
Written == {id \in DOMAIN op'.batch :
               id \in DOMAIN collection' /\ collection'[id] = op'.batch[id]}

\* C13: index_cv never raises because of its source: if reading or parsing
\* fails, the text is empty or the write to the index fails, it returns 0
\* and leaves the index as it was; otherwise it returns the number of
\* chunks it wrote
C13_IndexCvOutcome ==
    [][IndexCvStep =>
        /\ ~op'.raised
        /\ SourceFails => (op'.ret = 0 /\ collection' = collection)
        /\ ~SourceFails => op'.ret = Cardinality(Written)]_vars

\* C14: index_all_cvs takes every file it finds once and goes on after a
\* failure; its statistics give total_files = number of files, total_chunks
\* = sum of what index_cv returned, success + failed = total_files and
\* failed = number of files for which no chunk was written
C14_BatchStatistics ==
    op.kind = "index_all_cvs" =>
        /\ op.cv_files = Discover(files, 1)
        /\ Len(op.counts) = Len(op.cv_files)
        /\ {"total_files", "total_chunks", "failed", "success"} \subseteq op.stats.keys
        /\ op.stats.total_files = Len(op.cv_files)
        /\ op.stats.total_chunks = Sum(op.counts)
        /\ op.stats.success + op.stats.failed = op.stats.total_files
        /\ op.stats.failed = Zeros(op.counts)

\* C19: delete_cv(name) removes the chunks whose source is name, all of
\* them when the index does what it is asked, and leaves every other chunk
\* as it is; with no chunk of that source it changes nothing; it does not
\* raise
C19_DeleteBySource ==
    [][op'.kind = "delete_cv" =>
        /\ ~op'.raised
        /\ DOMAIN collection' \subseteq DOMAIN collection
        /\ \A id \in DOMAIN collection \ ChunksOf(collection, op'.arg) :
               id \in DOMAIN collection' /\ collection'[id] = collection[id]
        /\ op'.index_ok => ChunksOf(collection', op'.arg) = {}
        /\ ChunksOf(collection, op'.arg) = {} => collection' = collection]_vars

\* delete_cv has removed the chunks of a source, two at least, and chunks
\* of another source are still stored
C19_Witness ==
    /\ op.kind = "delete_cv"
    /\ op.index_ok
    /\ Cardinality(op.before \ DOMAIN collection) >= 2
    /\ ChunksOf(collection, op.arg) = {}
    /\ DOMAIN collection # {}

\* the ids of the chunks the step removes
Removed == DOMAIN collection \ DOMAIN collection'

\* C20 as stated: a stored chunk is removed only by a delete_cv of its
\* source
C20_RemovedOnlyByDelete ==
    [][\A id \in Removed :
          op'.kind = "delete_cv" /\ op'.arg = collection[id].metadata.source]_vars

\* C20 amended: a stored chunk is removed only by a delete_cv of its source
\* or by the construction of an indexer with reset=True, which removes the
\* whole collection; constructing without reset, indexing, searching and
\* statistics remove nothing
C20_RemovedOnlyByDeleteOrReset ==
    [][\A id \in Removed :
          \/ op'.kind = "delete_cv" /\ op'.arg = collection[id].metadata.source
          \/ op'.kind = "construct" /\ op'.arg = "reset"]_vars

\* an indexer has been constructed with reset=True on a collection that
\* held chunks, and the collection is empty
C20_Witness ==
    /\ op.kind = "construct"
    /\ op.arg = "reset"
    /\ op.before # {}
    /\ DOMAIN collection = {}

----------------------------------------------------------------------------
(* Properties of the candidate fetch of search *)

\* a search call has been made
HasSearched == call.query # "none"

\* C24: when reranking is requested and the reranker is available or not
\* yet initialised, search queries the index exactly once, for
\* max(RERANK_TOP_K, n) candidates (n the effective number of results)
C24_RerankPoolFetched ==
    (HasSearched /\ call.use_reranking /\ call.reranker_before \in {"None", "Object"})
        => /\ call.queries = 1
           /\ call.fetch_count = Max(RERANK_TOP_K, call.n_results)

\* a search for the default 12 results with reranking has asked the index
\* for 50 candidates and has reranked what it got
C24_Witness ==
    /\ Reranked
    /\ call.n_results = 12
    /\ call.fetch_count = 50
    /\ call.queries = 1

\* C25: when reranking is not requested, or is requested while the reranker
\* is disabled already, search asks the index for exactly n candidates
C25_PlainFetchIsN ==
    (HasSearched /\ (~call.use_reranking \/ call.reranker_before = "False"))
        => call.fetch_count = call.n_results

----------------------------------------------------------------------------
(* Properties of parsing and writing *)

\* what _parse_cv_file gives for the file the last index_cv was called with
LastParsed == ParseCvFile(op.arg, FileContent(files, op.arg))

\* what _parse_cv_file gives for an empty file of that name
EmptyParsed == ParseCvFile(op.arg, [status |-> "empty", tokens |-> 0])

\* C23: extracting a malformed JSON record fails with a parse error, an
\* outcome other than the ("", {}) of empty input, and index_cv counts the
\* record as failed (returns 0)
C23_MalformedIsParseError ==
    (op.kind = "index_cv" /\ FileContent(files, op.arg).status = "malformed")
        => /\ LastParsed.raised
           /\ LastParsed # EmptyParsed
           /\ op.ret = 0

\* C26: index_cv writes with an upsert: when nothing fails, every chunk id
\* of the batch holds the new text and metadata afterwards, whether the id
\* was stored before or not
C26_UpsertOverwrites ==
    [][(IndexCvStep /\ ~SourceFails) =>
          \A id \in DOMAIN op'.batch :
              id \in DOMAIN collection' /\ collection'[id] = op'.batch[id]]_vars

----------------------------------------------------------------------------
(* Properties of the windows of the chunker *)

\* a text of more than size tokens has been chunked
LongTextDone == ChunkerDone /\ TokenCount > config.chunk_size

\* the starts 0, size - overlap, 2 * (size - overlap), ... below the token
\* count
WindowStarts ==
    {s \in 0..(TokenCount - 1) : s % (config.chunk_size - config.overlap) = 0}

\* the window of up to size tokens that starts at token index s
WindowAt(s) ==
    Join(SubSeq(Split(chunker.text), s + 1, Min(s + config.chunk_size, TokenCount)))

\* the starts whose window has min_size tokens at least
KeptStarts == {s \in WindowStarts : Len(Split(WindowAt(s))) >= config.min_chunk_size}

\* the i-th of the kept starts in ascending order
KeptStart(i) == CHOOSE s \in KeptStarts : Cardinality({t \in KeptStarts : t < s}) = i - 1

\* 600 tokens with size 500, overlap 100 and min_size 50 give two chunks,
\* the second starting at token index 400
Scenario600 ==
    LET chunks == SplitIntoChunks(Text(600, "lines"), "None", "None", DefaultConfig)
    IN  /\ Len(chunks) = 2
        /\ Split(chunks[1]) = [i \in 1..500 |-> i]
        /\ Split(chunks[2]) = [i \in 1..200 |-> 400 + i]

\* C28: for a text of more than size tokens the chunks returned are the
\* windows that start at 0, size - overlap, 2 * (size - overlap), ... below
\* the token count, each of up to size tokens, in ascending order of start,
\* without the windows shorter than min_size
C28_WindowPositions ==
    /\ Scenario600
    /\ LongTextDone =>
           /\ Len(chunker.chunks) = Cardinality(KeptStarts)
           /\ \A i \in 1..Len(chunker.chunks) :
                  chunker.chunks[i] = WindowAt(KeptStart(i))

\* a long text has given several overlapping windows and a window that was
\* too short has been left out
C28_Witness ==
    /\ LongTextDone
    /\ ValidConfig(config)
    /\ config.overlap > 0
    /\ Len(chunker.chunks) >= 2
    /\ Cardinality(KeptStarts) < Cardinality(WindowStarts)

\* min_size <= overlap < size
OverlapCoversMinimum ==
    /\ config.min_chunk_size <= config.overlap
    /\ config.overlap < config.chunk_size

\* C30: with min_size <= overlap < size chunking loses no content: every
\* token of a text of more than size tokens is in one chunk at least
C30_NoContentLoss ==
    (LongTextDone /\ OverlapCoversMinimum) =>
        \A t \in 1..TokenCount :
            \E i \in 1..Len(chunker.chunks) : t \in Range(Split(chunker.chunks[i]))

\* a trailing window was dropped for being shorter than min_size, with
\* min_size <= overlap < size
C30_Witness ==
    /\ LongTextDone
    /\ OverlapCoversMinimum
    /\ config.min_chunk_size >= 1
    /\ Len(chunker.chunks) < Cardinality(WindowStarts)

\* C27: different source files write to disjoint chunk-id ranges: an id
\* that index_cv produces for a file is never the id of a stored chunk of
\* another source, so indexing one source neither overwrites nor blocks
\* chunks of another
C27_DisjointIdRanges ==
    [][IndexCvStep =>
          \A id \in DOMAIN op'.batch \cap DOMAIN collection :
              collection[id].metadata.source = op'.arg]_vars

----------------------------------------------------------------------------
(* Properties of the text extraction *)

\* _extract_text_from_json has returned the text of extraction.cv_data
Extracted == extraction.pc = "done"

\* the lines of the text that belong to a section
LinesOf(section) ==
    {i \in 1..Len(extraction.lines) : extraction.lines[i].section = section}

\* the sections whose entries the code may skip as disabled
SectionsWithDisabled == {"technologies", "key_qualifications", "project_experiences"}

\* C21: no line of the extracted text holds a string of a technology, key
\* qualification or project experience entry that is flagged disabled,
\* whatever else the entry holds.
C21_DisabledContributeNothing ==
    Extracted =>
        \A section \in SectionsWithDisabled : \A i \in LinesOf(section) :
            \A j \in 1..Len(extraction.lines[i].parts) :
                LET part == extraction.lines[i].parts[j]
                    entry == extraction.cv_data[section][part.entry]
                IN  (part # Empty /\ entry.type = "dict") => ~entry.disabled

\* a section holds a disabled entry with every key populated next to an
\* entry whose text is in the output
C21_Witness ==
    /\ Extracted
    /\ \E section \in SectionsWithDisabled :
          LET list == extraction.cv_data[section]
          IN  \E a, b \in 1..Len(list) :
                  /\ list[a].type = "dict"
                  /\ list[a].disabled
                  /\ \A key \in DOMAIN list[a].f : list[a].f[key].type # "absent"
                  /\ \E i \in LinesOf(section) :
                        \E j \in 1..Len(extraction.lines[i].parts) :
                            extraction.lines[i].parts[j].entry = b

\* the first string of a dict that is not empty, in the order no, en, int,
\* and "" when it has none
FirstNonEmpty(m) ==
    IF "no" \in DOMAIN m /\ m["no"] # Empty THEN m["no"]
    ELSE IF "en" \in DOMAIN m /\ m["en"] # Empty THEN m["en"]
    ELSE IF "int" \in DOMAIN m /\ m["int"] # Empty THEN m["int"]
    ELSE Empty

\* the strings of the summary field in the extracted text
SummaryTexts ==
    {extraction.lines[i].parts[1] : i \in {k \in LinesOf("head") :
        /\ extraction.lines[k].kind = "summary"
        /\ extraction.lines[k].parts[1].key = "summary"}}

\* C22: a dict of locales resolves to its first non-empty string in the
\* order no, en, int, and to "" when it has none: the summary of the text
\* is that string (no summary when it is ""), and so is the employer in the
\* header of a work experience.
C22_FirstNonEmptyLocale ==
    Extracted =>
        /\ extraction.cv_data.summary.type = "dict" =>
              LET want == FirstNonEmpty(extraction.cv_data.summary.m)
              IN  SummaryTexts = IF want = Empty THEN {} ELSE {want}
        /\ \A k \in 1..Len(extraction.cv_data.work_experiences) :
              LET employer == extraction.cv_data.work_experiences[k].f["employer"]
              IN  (employer.type = "dict" /\ FirstNonEmpty(employer.m) # Empty) =>
                      \E i \in LinesOf("work_experiences") :
                          /\ extraction.lines[i].kind = "header"
                          /\ extraction.lines[i].parts[2] = FirstNonEmpty(employer.m)

\* the line holds a text of the document
HasText(line) == \E j \in 1..Len(line.parts) : line.parts[j].kind = "text"

\* C29: a section whose entries give no text has no line in the extracted
\* text, neither a heading nor a placeholder: every section that has a line
\* has a line with a text of one of its entries.
C29_EmptySectionOmitted ==
    Extracted =>
        \A section \in Sections :
            LinesOf(section) # {} =>
                \E i \in LinesOf(section) : HasText(extraction.lines[i])

====
